---------------------------- MODULE Spec2Model ----------------------------
(***************************************************************************)
(* Model of statistics_and_trends.py: the driver main() and the functions  *)
(* it calls (preprocessing, the three plot generators, statistical_analysis*)
(* and writing), as a state machine over the driver's local variables, the *)
(* plotting library's figure registry, the working directory and the       *)
(* console.                                                                *)
(*                                                                         *)
(* Numbers.  A table cell is a record [na, v]: na is TRUE for a missing    *)
(* value (pandas NaN).  A computed moment is a record [nan, sgn, num, den] *)
(* that stands for the real number sgn * sqrt(num / den) (num/den reduced),*)
(* or for not-a-number when nan is TRUE.  Means, standard deviations,      *)
(* skewness and kurtosis of integer data are all of that form, so the      *)
(* model computes them exactly; the code computes them in IEEE doubles.    *)
(***************************************************************************)
EXTENDS Integers, Sequences, FiniteSets, TLC

VARIABLES pc, err, df, moments, figs, files, console

vars == <<pc, err, df, moments, figs, files, console>>

\* Bounds of the model.
MaxRows == 2
MaxSeries == 4
SkewSpan == 10
KurtSpan == 5

-----------------------------------------------------------------------------
(* Exact arithmetic *)

Abs(x) == IF x < 0 THEN -x ELSE x

Sign(x) == IF x > 0 THEN 1 ELSE IF x < 0 THEN -1 ELSE 0

RECURSIVE GCD(_, _)
GCD(a, b) == IF b = 0 THEN a ELSE GCD(b, a % b)

\* The real number s * sqrt(n / d), d > 0, n >= 0, in reduced form.
Root(s, n, d) ==
    IF n = 0 \/ s = 0
    THEN [nan |-> FALSE, sgn |-> 0, num |-> 0, den |-> 1]
    ELSE LET g == GCD(n, d)
         IN  [nan |-> FALSE, sgn |-> s, num |-> n \div g, den |-> d \div g]

\* The rational p / q, q > 0, as a real: sign(p) * sqrt(p^2 / q^2).
Rat(p, q) ==
    LET g == GCD(Abs(p), q)
        a == Abs(p) \div (IF g = 0 THEN 1 ELSE g)
        b == q \div (IF g = 0 THEN 1 ELSE g)
    IN  Root(Sign(p), a * a, b * b)

NaN == [nan |-> TRUE, sgn |-> 0, num |-> 0, den |-> 1]

\* x > p / q on floats: every comparison with not-a-number is false.
GreaterThan(x, p, q) ==
    /\ ~x.nan
    /\ IF p >= 0
       THEN x.sgn > 0 /\ x.num * q * q > p * p * x.den
       ELSE x.sgn >= 0 \/ x.num * q * q < p * p * x.den

\* x < p / q on floats.
LessThan(x, p, q) ==
    /\ ~x.nan
    /\ IF p <= 0
       THEN x.sgn < 0 /\ x.num * q * q > p * p * x.den
       ELSE x.sgn <= 0 \/ x.num * q * q < p * p * x.den

-----------------------------------------------------------------------------
(* Tables *)

NA == [na |-> TRUE, v |-> 0]

Val(x) == [na |-> FALSE, v |-> x]

\* The values a field of data.csv can hold in the model.
SexValues == {Val("M"), Val("F"), Val("U"), NA}
AnginaValues == {Val("Y"), Val("N"), Val("U"), NA}
CholesterolValues == {Val(-100), Val(0), Val(100), Val(200), NA}
MaxHRValues == {Val(150), NA}

RawRows ==
    [Sex : SexValues, ExerciseAngina : AnginaValues,
     Cholesterol : CholesterolValues, MaxHR : MaxHRValues,
     RestingBP : {Val(120)}, ChestPainType : {Val("ATA")},
     HeartDisease : {Val(1)}]

Columns == {"Sex", "ExerciseAngina", "Cholesterol", "MaxHR", "RestingBP",
            "ChestPainType", "HeartDisease"}


\* One console line: what is printed, the words filled in, and how many rows
\* or numbers it shows.
Line(kind, a, b, n) == [kind |-> kind, a |-> a, b |-> b, n |-> n]

Min(a, b) == IF a < b THEN a ELSE b

-----------------------------------------------------------------------------
(* preprocessing *)

\* Series.map(dict): a value that is no key of the dict, missing ones
\* included, becomes missing.
MapCell(c, k1, c1, k0, c0) ==
    IF c.na THEN NA
    ELSE IF c.v = k1 THEN Val(c1)
    ELSE IF c.v = k0 THEN Val(c0)
    ELSE NA

\* Faulty variant: the two codes of Sex exchanged.
MapSexSwapped(t) ==
    [i \in 1..Len(t) |-> [t[i] EXCEPT !.Sex = MapCell(@, "M", 0, "F", 1)]]

MapSex(t) ==
    [i \in 1..Len(t) |-> [t[i] EXCEPT !.Sex = MapCell(@, "M", 1, "F", 0)]]

MapExerciseAngina(t) ==
    [i \in 1..Len(t) |-> [t[i] EXCEPT !.ExerciseAngina = MapCell(@, "Y", 1, "N", 0)]]

\* df['Cholesterol'] > 0: false for a missing value.
CholesterolPositive(r) == ~r.Cholesterol.na /\ r.Cholesterol.v > 0

\* DataFrame.dropna(): a row stays when none of its fields is missing.
NoMissing(r) == \A c \in Columns : ~r[c].na

DropNa(t) == SelectSeq(t, NoMissing)

\* Faulty variant: the filter keeps a Cholesterol of zero.
FilterCholesterolNonNegative(t) ==
    SelectSeq(t, LAMBDA r : ~r.Cholesterol.na /\ r.Cholesterol.v >= 0)

FilterCholesterol(t) == SelectSeq(t, CholesterolPositive)

\* The table preprocessing returns.
preprocessing(t) == DropNa(FilterCholesterol(MapExerciseAngina(MapSex(t))))

\* What preprocessing prints: head and describe of the table it was given,
\* the correlation matrix of the table it returns.
preprocessing_prints(t) ==
    << Line("Initial data overview:", "", "", 0),
       Line("head", "", "", Min(Len(t), 5)),
       Line("Summary statistics:", "", "", 0),
       Line("describe", "", "", Len(t)),
       Line("Correlation matrix:", "", "", 0),
       Line("corr", "", "", Len(preprocessing(t))) >>

-----------------------------------------------------------------------------
(* statistical_analysis *)

\* df[col].dropna(): the values of the column that are not missing, in order.
RECURSIVE ColumnDropNa(_, _)
ColumnDropNa(t, col) ==
    IF t = <<>> THEN <<>>
    ELSE LET rest == ColumnDropNa(Tail(t), col)
         IN  IF Head(t)[col].na THEN rest ELSE <<Head(t)[col].v>> \o rest

RECURSIVE Sum(_)
Sum(s) == IF s = <<>> THEN 0 ELSE Head(s) + Sum(Tail(s))

RECURSIVE GCDSeq(_)
GCDSeq(s) == IF s = <<>> THEN 0 ELSE GCD(Abs(Head(s)), GCDSeq(Tail(s)))

RECURSIVE Pow(_, _)
Pow(x, k) == IF k = 0 THEN 1 ELSE x * Pow(x, k - 1)

\* n * (x_i - mean), an integer for integer data.
Deviations(s) == [i \in 1..Len(s) |-> Len(s) * s[i] - Sum(s)]

\* The deviations in units of their greatest common divisor u: the central
\* moment m_k is (u / n)^k * PowerSum(Scaled(s), k) / n, and u / n cancels
\* in m3 / m2^1.5 and in m4 / m2^2.
Scaled(s) ==
    LET d == Deviations(s)
        u == GCDSeq(d)
    IN  [i \in 1..Len(s) |-> IF u = 0 THEN 0 ELSE d[i] \div u]

PowerSum(e, k) == Sum([i \in 1..Len(e) |-> Pow(e[i], k)])

\* Series.mean(): not-a-number for an empty series.
Mean(s) == IF s = <<>> THEN NaN ELSE Rat(Sum(s), Len(s))

\* Faulty variant: the population standard deviation (ddof = 0).
StdPopulation(s) ==
    IF s = <<>> THEN NaN
    ELSE Root(1, PowerSum(Deviations(s), 2), Len(s) * Len(s) * Len(s))

\* Series.std(): ddof = 1, not-a-number for fewer than two values.
Std(s) ==
    IF Len(s) < 2 THEN NaN
    ELSE Root(1, PowerSum(Deviations(s), 2), Len(s) * Len(s) * (Len(s) - 1))

\* scipy.stats.skew: m3 / m2^1.5 with biased central moments.  For constant
\* data m2 is zero: releases from 1.9 on return not-a-number, earlier ones
\* return 0 (policy "zero").  An empty series gives not-a-number in both.
Skew(s, policy) ==
    LET e == Scaled(s)
        E2 == PowerSum(e, 2)
        E3 == PowerSum(e, 3)
    IN  IF s = <<>> THEN NaN
        ELSE IF E2 = 0 THEN (IF policy = "zero" THEN Rat(0, 1) ELSE NaN)
        ELSE Root(Sign(E3), Len(s) * E3 * E3, E2 * E2 * E2)

\* scipy.stats.kurtosis (fisher=True): m4 / m2^2 - 3.  For constant data
\* releases before 1.9 return 0 - 3.
Kurtosis(s, policy) ==
    LET e == Scaled(s)
        E2 == PowerSum(e, 2)
        E4 == PowerSum(e, 4)
    IN  IF s = <<>> THEN NaN
        ELSE IF E2 = 0 THEN (IF policy = "zero" THEN Rat(-3, 1) ELSE NaN)
        ELSE Rat(Len(s) * E4 - 3 * E2 * E2, E2 * E2)

ConstantPolicies == {"nan", "zero"}

\* The tuple statistical_analysis returns.
statistical_analysis(t, col, policy) ==
    LET series == ColumnDropNa(t, col)
    IN  << Mean(series), Std(series), Skew(series, policy), Kurtosis(series, policy) >>

-----------------------------------------------------------------------------
(* writing *)

\* Faulty variant: the boundary 0.5 counted as right skewed.
skew_desc_inclusive(m) ==
    IF GreaterThan(m[3], 1, 2) \/ m[3] = Rat(1, 2) THEN "right skewed"
    ELSE IF LessThan(m[3], -1, 2) THEN "left skewed"
    ELSE "approximately symmetrical"

skew_desc(m) ==
    IF GreaterThan(m[3], 1, 2) THEN "right skewed"
    ELSE IF LessThan(m[3], -1, 2) THEN "left skewed"
    ELSE "approximately symmetrical"

kurt_desc(m) ==
    IF GreaterThan(m[4], 0, 1) THEN "leptokurtic (heavy tails)"
    ELSE IF LessThan(m[4], 0, 1) THEN "platykurtic (light tails)"
    ELSE "mesokurtic (normal-like)"

\* The three lines writing prints.
writing(m, col) ==
    << Line("For the attribute", col, "", 0),
       Line("Mean, Standard Deviation, Skewness, Excess Kurtosis", "", "", 4),
       Line("The data distribution is", skew_desc(m), kurt_desc(m), 0) >>

-----------------------------------------------------------------------------
(* The plot generators.  A world is the table a generator is given, the    *)
(* plotting library's open figures (the last one is the current figure)    *)
(* and the files of the working directory.  What a file holds is the       *)
(* figure that was saved: its number, size, title and the data handed to   *)
(* the seaborn call.  The source guards no library call, and the model     *)
(* takes every call on a table with the expected columns to return.        *)

World(t, fg, fl) == [df |-> t, figs |-> fg, files |-> fl]

RECURSIVE MaxNum(_)
MaxNum(fg) ==
    IF fg = <<>> THEN 0
    ELSE LET m == MaxNum(Tail(fg))
         IN  IF Head(fg).num > m THEN Head(fg).num ELSE m

\* plt.subplots(figsize=...): a new figure, numbered after the open ones,
\* becomes the current figure.
Subplots(w, width, height) ==
    [w EXCEPT !.figs = Append(@, [num |-> MaxNum(@) + 1, figsize |-> <<width, height>>,
                                  title |-> "", kind |-> "", data |-> <<>>])]

CurrentFigure(w) == w.figs[Len(w.figs)]

\* A seaborn call with ax=ax draws on the axes of figure num.
Draw(w, num, kind, data) ==
    [w EXCEPT !.figs = [i \in 1..Len(@) |->
        IF @[i].num = num THEN [@[i] EXCEPT !.kind = kind, !.data = data] ELSE @[i]]]

SetTitle(w, num, title) ==
    [w EXCEPT !.figs = [i \in 1..Len(@) |->
        IF @[i].num = num THEN [@[i] EXCEPT !.title = title] ELSE @[i]]]

\* plt.savefig(name): writes the current figure, replacing the file.
SaveFig(w, name) ==
    [w EXCEPT !.files = [f \in DOMAIN @ \cup {name} |->
        IF f = name THEN CurrentFigure(w) ELSE @[f]]]

\* Faulty variant: the figure is never closed.
CloseNothing(w, num) == w

\* plt.close(fig): the figure leaves the registry.
Close(w, num) ==
    [w EXCEPT !.figs = SelectSeq(@, LAMBDA f : f.num # num)]

ScatterData(t) ==
    [i \in 1..Len(t) |-> <<t[i].Cholesterol, t[i].MaxHR, t[i].HeartDisease>>]

BarData(t) ==
    [i \in 1..Len(t) |-> <<t[i].ChestPainType, t[i].RestingBP, t[i].HeartDisease>>]

HistData(t) == [i \in 1..Len(t) |-> t[i].Cholesterol]

plot_relational_plot(w) ==
    LET w1 == Subplots(w, 8, 6)
        fig == CurrentFigure(w1).num
        w2 == Draw(w1, fig, "scatterplot", ScatterData(w1.df))
        w3 == SetTitle(w2, fig, "Cholesterol vs Max Heart Rate by Heart Disease")
        w4 == SaveFig(w3, "relational_plot.png")
    IN  Close(w4, fig)

plot_categorical_plot(w) ==
    LET w1 == Subplots(w, 10, 6)
        fig == CurrentFigure(w1).num
        w2 == Draw(w1, fig, "barplot", BarData(w1.df))
        w3 == SetTitle(w2, fig, "Average Resting Blood Pressure by Chest Pain Type")
        w4 == SaveFig(w3, "categorical_plot.png")
    IN  Close(w4, fig)

\* Faulty variant: the histogram is drawn from a column sorted in place, so the
\* table the caller holds is reordered.
plot_statistical_plot_sorting(w) ==
    LET t == w.df
        sorted == IF Len(t) = 2 /\ t[1].Cholesterol.v > t[2].Cholesterol.v
                  THEN <<t[2], t[1]>> ELSE t
        w1 == Subplots([w EXCEPT !.df = sorted], 8, 6)
        fig == CurrentFigure(w1).num
        w2 == Draw(w1, fig, "histplot", HistData(w1.df))
        w3 == SetTitle(w2, fig, "Distribution of Cholesterol Levels")
        w4 == SaveFig(w3, "statistical_plot.png")
    IN  Close(w4, fig)

plot_statistical_plot(w) ==
    LET w1 == Subplots(w, 8, 6)
        fig == CurrentFigure(w1).num
        w2 == Draw(w1, fig, "histplot", HistData(w1.df))
        w3 == SetTitle(w2, fig, "Distribution of Cholesterol Levels")
        w4 == SaveFig(w3, "statistical_plot.png")
    IN  Close(w4, fig)

-----------------------------------------------------------------------------
(* main.  pc names the statement main runs next. *)

col == "Cholesterol"

NoMoments == <<>>

NoFiles == [f \in {} |-> 0]

Init ==
    /\ pc = "read_csv"
    /\ err = "none"
    /\ df = <<>>
    /\ moments = NoMoments
    /\ figs = <<>>
    /\ files = NoFiles
    /\ console = <<>>

\* pd.read_csv('data.csv') returns the table of the file.
ReadCsv ==
    /\ pc = "read_csv"
    /\ \E n \in 0..MaxRows : \E t \in [1..n -> RawRows] : df' = t
    /\ pc' = "preprocessing"
    /\ UNCHANGED <<err, moments, figs, files, console>>

\* Faulty variant: the failure is swallowed and the run goes on with an empty table.
ReadCsvFailsSwallowed ==
    /\ pc = "read_csv"
    /\ \E e \in {"FileNotFoundError", "ParserError"} : err' = e
    /\ df' = <<>>
    /\ pc' = "preprocessing"
    /\ UNCHANGED <<moments, figs, files, console>>

\* pd.read_csv('data.csv') raises: no file, or a file that does not parse.
\* main catches nothing, so the run ends there.
ReadCsvFails ==
    /\ pc = "read_csv"
    /\ \E e \in {"FileNotFoundError", "ParserError"} : err' = e
    /\ pc' = "failed"
    /\ UNCHANGED <<df, moments, figs, files, console>>

Preprocess ==
    /\ pc = "preprocessing"
    /\ console' = console \o preprocessing_prints(df)
    /\ df' = preprocessing(df)
    /\ pc' = "plot_relational_plot"
    /\ UNCHANGED <<err, moments, figs, files>>

\* A plot generator called on main's table: what it leaves behind.
CallPlot(w, next) ==
    /\ df' = w.df
    /\ figs' = w.figs
    /\ files' = w.files
    /\ pc' = next
    /\ UNCHANGED <<err, moments, console>>

PlotRelational ==
    /\ pc = "plot_relational_plot"
    /\ CallPlot(plot_relational_plot(World(df, figs, files)), "plot_statistical_plot")

PlotStatistical ==
    /\ pc = "plot_statistical_plot"
    /\ CallPlot(plot_statistical_plot(World(df, figs, files)), "plot_categorical_plot")

PlotCategorical ==
    /\ pc = "plot_categorical_plot"
    /\ CallPlot(plot_categorical_plot(World(df, figs, files)), "statistical_analysis")

\* Faulty variant: the moments are computed before the last plot is generated.
AnalyseBeforeLastPlot ==
    /\ pc = "plot_categorical_plot"
    /\ \E policy \in ConstantPolicies : moments' = statistical_analysis(df, col, policy)
    /\ pc' = "writing"
    /\ UNCHANGED <<err, df, figs, files, console>>

\* Faulty variant: a constant or empty column raises instead of returning a tuple.
AnalyseRaising ==
    /\ pc = "statistical_analysis"
    /\ LET s == ColumnDropNa(df, col)
       IN  IF PowerSum(Deviations(s), 2) = 0
           THEN /\ err' = "ZeroDivisionError"
                /\ pc' = "failed"
                /\ UNCHANGED moments
           ELSE /\ \E policy \in ConstantPolicies :
                      moments' = statistical_analysis(df, col, policy)
                /\ pc' = "writing"
                /\ UNCHANGED err
    /\ UNCHANGED <<df, figs, files, console>>

Analyse ==
    /\ pc = "statistical_analysis"
    /\ \E policy \in ConstantPolicies : moments' = statistical_analysis(df, col, policy)
    /\ pc' = "writing"
    /\ UNCHANGED <<err, df, figs, files, console>>

Report ==
    /\ pc = "writing"
    /\ console' = console \o writing(moments, col)
    /\ pc' = "done"
    /\ UNCHANGED <<err, df, moments, figs, files>>

Next ==
    \/ ReadCsv
    \/ ReadCsvFails
    \/ Preprocess
    \/ PlotRelational
    \/ PlotStatistical
    \/ PlotCategorical
    \/ Analyse
    \/ Report

Spec == Init /\ [][Next]_vars

-----------------------------------------------------------------------------
(* statistical_analysis and writing on their own: the table is any table   *)
(* whose Cholesterol column holds up to MaxSeries values, missing ones     *)
(* included.                                                               *)

SeriesValues == {Val(100), Val(200), Val(300), NA}

SeriesRow(c) ==
    [Sex |-> Val(1), ExerciseAngina |-> Val(0), Cholesterol |-> c, MaxHR |-> Val(150),
     RestingBP |-> Val(120), ChestPainType |-> Val("ATA"), HeartDisease |-> Val(1)]

InitMoments ==
    /\ pc = "statistical_analysis"
    /\ err = "none"
    /\ \E n \in 0..MaxSeries : \E c \in [1..n -> SeriesValues] :
          df = [i \in 1..n |-> SeriesRow(c[i])]
    /\ moments = NoMoments
    /\ figs = <<>>
    /\ files = NoFiles
    /\ console = <<>>

NextMoments ==
    \/ Analyse
    \/ Report

SpecMoments == InitMoments /\ [][NextMoments]_vars

(* writing on its own: the moments are any tuple whose skewness is a number *)
(* of tenths and whose kurtosis is a number of halves, or not-a-number.     *)

SkewInputs == {NaN} \cup {Rat(i, 10) : i \in -SkewSpan..SkewSpan}

KurtInputs == {NaN} \cup {Rat(i, 2) : i \in -KurtSpan..KurtSpan}

InitWriting ==
    /\ pc = "writing"
    /\ err = "none"
    /\ df = <<>>
    /\ \E s \in SkewInputs, k \in KurtInputs :
          moments = <<Rat(200, 1), Rat(100, 1), s, k>>
    /\ figs = <<>>
    /\ files = NoFiles
    /\ console = <<>>

NextWriting == Report

SpecWriting == InitWriting /\ [][NextWriting]_vars

-----------------------------------------------------------------------------
(* Properties *)

\* The statements main has still to run once preprocessing has returned.
AfterPreprocessing ==
    {"plot_relational_plot", "plot_statistical_plot", "plot_categorical_plot",
     "statistical_analysis", "writing", "done"}

ThreeFiles == {"relational_plot.png", "categorical_plot.png", "statistical_plot.png"}

Printed(kind) == {i \in 1..Len(console) : console[i].kind = kind}

MomentsLine == "Mean, Standard Deviation, Skewness, Excess Kurtosis"

InterpretationLine == "The data distribution is"

RowsOf(t) == {t[i] : i \in 1..Len(t)}

\* C1: every row of the table preprocessing returns has Sex and
\* ExerciseAngina in {0, 1}, a Cholesterol above zero and no missing field,
\* and the table has no more rows than the input has rows with a
\* Cholesterol above zero.
C1_CleanTable ==
    /\ [](pc \in AfterPreprocessing =>
            \A r \in RowsOf(df) :
                /\ r.Sex \in {Val(0), Val(1)}
                /\ r.ExerciseAngina \in {Val(0), Val(1)}
                /\ ~r.Cholesterol.na /\ r.Cholesterol.v > 0
                /\ \A c \in Columns : ~r[c].na)
    /\ [][pc = "preprocessing" =>
            /\ Len(df') <= Cardinality({i \in 1..Len(df) :
                                ~df[i].Cholesterol.na /\ df[i].Cholesterol.v > 0})
            /\ \A r \in RowsOf(df') : \E q \in RowsOf(df) :
                    q.Cholesterol = r.Cholesterol /\ q.MaxHR = r.MaxHR]_vars

\* C1 witness: preprocessing has returned a row and dropped another.
C1_Witness ==
    /\ pc = "plot_relational_plot"
    /\ Len(df) = 1
    /\ console[4].n = 2

\* A row preprocessing keeps, by the values of the input row.
Eligible(r) ==
    /\ ~r.Sex.na /\ r.Sex.v \in {"M", "F"}
    /\ ~r.ExerciseAngina.na /\ r.ExerciseAngina.v \in {"Y", "N"}
    /\ ~r.Cholesterol.na /\ r.Cholesterol.v > 0
    /\ \A c \in Columns : ~r[c].na

Coded(r) ==
    [r EXCEPT !.Sex = Val(IF @.v = "M" THEN 1 ELSE 0),
              !.ExerciseAngina = Val(IF @.v = "Y" THEN 1 ELSE 0)]

ExpectedClean(t) ==
    LET kept == SelectSeq(t, Eligible)
    IN  [i \in 1..Len(kept) |-> Coded(kept[i])]

\* C2: preprocessing returns exactly the input rows, in order, that have Sex
\* in {M, F}, ExerciseAngina in {Y, N}, Cholesterol > 0 and no missing field,
\* with M, F coded 1, 0 and Y, N coded 1, 0 and every other field unchanged.
C2_ExactOutput == [][pc = "preprocessing" => df' = ExpectedClean(df)]_vars

\* C2 witness: two rows came through, coded (1, 0) and (0, 1) in that order.
C2_Witness ==
    /\ pc = "plot_relational_plot"
    /\ Len(df) = 2
    /\ df[1].Sex = Val(1) /\ df[1].ExerciseAngina = Val(0)
    /\ df[2].Sex = Val(0) /\ df[2].ExerciseAngina = Val(1)
    /\ df[1].Cholesterol # df[2].Cholesterol

Interpretation == console[Len(console)]

\* The skewness inputs above 0.5 and below -0.5, by their number of tenths.
AboveHalf == {Rat(i, 10) : i \in {j \in -SkewSpan..SkewSpan : 2 * j > 10}}

BelowMinusHalf == {Rat(i, 10) : i \in {j \in -SkewSpan..SkewSpan : 2 * j < -10}}

\* C3: writing says "right skewed" exactly when the skewness is above 0.5,
\* "left skewed" exactly when it is below -0.5 and "approximately
\* symmetrical" otherwise, 0.5 and -0.5 and not-a-number included.
C3_SkewLabel ==
    pc = "done" =>
        /\ Interpretation.kind = InterpretationLine
        /\ Interpretation.a = "right skewed" <=> moments[3] \in AboveHalf
        /\ Interpretation.a = "left skewed" <=> moments[3] \in BelowMinusHalf
        /\ Interpretation.a = "approximately symmetrical"
              <=> moments[3] \notin AboveHalf \cup BelowMinusHalf
        /\ Interpretation.a \in {"right skewed", "left skewed", "approximately symmetrical"}

\* C3 witness: a skewness of exactly 0.5 has been reported as symmetrical.
C3_Witness ==
    /\ pc = "done"
    /\ moments[3] = Rat(1, 2)
    /\ Interpretation.a = "approximately symmetrical"

\* C4: writing says leptokurtic for a kurtosis above 0, platykurtic below 0,
\* and mesokurtic only for a kurtosis equal to 0, whatever statistical_analysis
\* returned.
C4_KurtLabel ==
    pc = "done" =>
        /\ Interpretation.b = "mesokurtic (normal-like)" => moments[4] = Rat(0, 1)
        /\ GreaterThan(moments[4], 0, 1) => Interpretation.b = "leptokurtic (heavy tails)"
        /\ LessThan(moments[4], 0, 1) => Interpretation.b = "platykurtic (light tails)"

\* The column statistical_analysis works on, and its sums taken in units of
\* 100 about n times the mean: the central moment m_k of the column is
\* 100^k * Central(y, k) / n^(k+1).
Series ==
    LET present == SelectSeq(df, LAMBDA r : ~r.Cholesterol.na)
    IN  [i \in 1..Len(present) |-> present[i].Cholesterol.v]

InUnits(x) == [i \in 1..Len(x) |-> x[i] \div 100]

Central(y, k) == Sum([i \in 1..Len(y) |-> Pow(Len(y) * y[i] - Sum(y), k)])

SumOfSquares(x) == Sum([i \in 1..Len(x) |-> x[i] * x[i]])

\* C5: on the column without its missing values statistical_analysis
\* returns the mean, the standard deviation with divisor n - 1, the skewness
\* m3 / m2^1.5 and the kurtosis m4 / m2^2 - 3; for [100, 200, 300] these are
\* 200, 100, 0 and -1.5.
C5_Moments ==
    pc \in {"writing", "done"} =>
        LET x == Series
            n == Len(x)
            y == InUnits(x)
            c2 == Central(y, 2)
            c3 == Central(y, 3)
            c4 == Central(y, 4)
        IN  /\ n >= 1 => moments[1] = Rat(Sum(x), n)
            /\ n >= 2 =>
                  moments[2] = Root(1, n * SumOfSquares(x) - Sum(x) * Sum(x), n * (n - 1))
            /\ c2 > 0 =>
                  /\ moments[3] = Root(Sign(c3), n * c3 * c3, c2 * c2 * c2)
                  /\ moments[4] = Rat(n * c4 - 3 * c2 * c2, c2 * c2)
            /\ x = <<100, 200, 300>> =>
                  moments = <<Rat(200, 1), Rat(100, 1), Rat(0, 1), Rat(-3, 2)>>

\* C5 witness: the moments of [100, 200, 300], taken from a column that also
\* held a missing value.
C5_Witness ==
    /\ pc = "writing"
    /\ Series = <<100, 200, 300>>
    /\ Len(df) = 4
    /\ moments[2] = Rat(100, 1)

PlotData(f, t) ==
    IF f = "relational_plot.png" THEN ScatterData(t)
    ELSE IF f = "categorical_plot.png" THEN BarData(t)
    ELSE HistData(t)

\* The statement main runs after each statement.
Successor ==
    { <<"read_csv", "preprocessing">>, <<"read_csv", "failed">>,
      <<"preprocessing", "plot_relational_plot">>,
      <<"plot_relational_plot", "plot_statistical_plot">>,
      <<"plot_statistical_plot", "plot_categorical_plot">>,
      <<"plot_categorical_plot", "statistical_analysis">>,
      <<"statistical_analysis", "writing">>, <<"writing", "done">> }

StepInOrder == <<pc, pc'>> \in Successor

\* C6: main loads, preprocesses, plots, computes the moments and reports, in
\* that order: a file is written only after preprocessing has returned and
\* shows the table preprocessing returned, the moments are those of that
\* table and exist only once the three files do, and the report is printed
\* once, as the last lines, by the last statement.
C6_FixedOrder ==
    /\ [][StepInOrder]_vars
    /\ [](/\ DOMAIN files # {} => pc \in AfterPreprocessing
          /\ \A f \in DOMAIN files : files[f].data = PlotData(f, df)
          /\ moments # NoMoments =>
                /\ DOMAIN files = ThreeFiles
                /\ pc \in {"writing", "done"}
                /\ moments \in {statistical_analysis(df, col, p) : p \in ConstantPolicies}
          /\ Cardinality(Printed(InterpretationLine)) = (IF pc = "done" THEN 1 ELSE 0)
          /\ Cardinality(Printed(MomentsLine)) = (IF pc = "done" THEN 1 ELSE 0)
          /\ pc = "done" =>
                /\ console[Len(console)].kind = InterpretationLine
                /\ console[Len(console) - 1].kind = MomentsLine
                /\ console[1].kind = "Initial data overview:")

\* C6 witness: a run on a table of two different rows has ended.
C6_Witness ==
    /\ pc = "done"
    /\ Len(df) = 2
    /\ df[1] # df[2]

\* C7: when read_csv raises, main ends there: no file is written, nothing is
\* printed, no moments are computed, and no statement runs afterwards.
C7_LoadFailure ==
    /\ [](err # "none" =>
            /\ pc = "failed"
            /\ files = NoFiles
            /\ console = <<>>
            /\ moments = NoMoments
            /\ figs = <<>>)
    /\ [][pc # "failed"]_vars

\* C7 witness: the run has ended on a file that does not parse.
C7_Witness ==
    /\ pc = "failed"
    /\ err = "ParserError"

\* A column statistical_analysis cannot standardise: empty, or all equal.
Degenerate(x) == \A i, j \in 1..Len(x) : x[i] = x[j]

\* C8 as stated: an empty or constant column is fatal, and neither the
\* moments line nor the interpretation sentence is printed.
C8_DegenerateIsFatal ==
    Degenerate(Series) =>
        /\ pc # "done"
        /\ Printed(MomentsLine) = {}
        /\ Printed(InterpretationLine) = {}

\* C8 as amended: an empty or constant column raises nothing.
\* statistical_analysis returns a tuple, whose skewness and kurtosis are
\* not-a-number or the values 0 and -3 of an older scipy (all four moments
\* are not-a-number for an empty column), and writing prints the moments
\* line and the interpretation sentence.
C8_DegenerateIsReported ==
    Degenerate(Series) =>
        /\ err = "none"
        /\ pc \in {"statistical_analysis", "writing", "done"}
        /\ pc # "done" => ENABLED NextMoments
        /\ pc \in {"writing", "done"} =>
              /\ moments[3] \in {NaN, Rat(0, 1)}
              /\ moments[4] \in {NaN, Rat(-3, 1)}
              /\ Series = <<>> => moments = <<NaN, NaN, NaN, NaN>>
        /\ pc = "done" =>
              /\ Cardinality(Printed(MomentsLine)) = 1
              /\ Cardinality(Printed(InterpretationLine)) = 1

\* C8 witness: the report of a constant column of two values whose kurtosis
\* is not-a-number.
C8_Witness ==
    /\ pc = "done"
    /\ Series = <<200, 200>>
    /\ moments[4] = NaN
    /\ Printed(InterpretationLine) # {}

Titles ==
    [f \in ThreeFiles |->
        IF f = "relational_plot.png" THEN "Cholesterol vs Max Heart Rate by Heart Disease"
        ELSE IF f = "categorical_plot.png"
             THEN "Average Resting Blood Pressure by Chest Pain Type"
        ELSE "Distribution of Cholesterol Levels"]

FileOf ==
    [p \in {"plot_relational_plot", "plot_statistical_plot", "plot_categorical_plot"} |->
        IF p = "plot_relational_plot" THEN "relational_plot.png"
        ELSE IF p = "plot_statistical_plot" THEN "statistical_plot.png"
        ELSE "categorical_plot.png"]

\* C9: a plot generator writes its one file, from the one figure it opened,
\* and leaves as many figures open as it found; after the three of them
\* exactly the three files exist and no figure is open.
C9_OneFilePerPlot ==
    /\ [][(pc \in DOMAIN FileOf) =>
            (/\ DOMAIN files' = DOMAIN files \cup {FileOf[pc]}
             /\ FileOf[pc] \notin DOMAIN files
             /\ \A f \in DOMAIN files : files'[f] = files[f]
             /\ files'[FileOf[pc]].title = Titles[FileOf[pc]]
             /\ files'[FileOf[pc]].num = MaxNum(figs) + 1
             /\ figs' = figs)]_vars
    /\ [](figs = <<>>)
    /\ [](pc \in {"statistical_analysis", "writing", "done"} => DOMAIN files = ThreeFiles)
    /\ [](Cardinality(ThreeFiles) = 3)

\* C9 witness: a complete run, three files written and no figure open.
C9_Witness ==
    /\ pc = "done"
    /\ DOMAIN files = ThreeFiles
    /\ figs = <<>>
    /\ Len(df) > 0

PlotNames == {"relational", "statistical", "categorical"}

Orders == {o \in [1..3 -> PlotNames] : \A i, j \in 1..3 : o[i] = o[j] => i = j}

DriverOrder == <<"relational", "statistical", "categorical">>

CallByName(name, w) ==
    IF name = "relational" THEN plot_relational_plot(w)
    ELSE IF name = "statistical" THEN plot_statistical_plot(w)
    ELSE plot_categorical_plot(w)

\* What a run leaves behind when it generates the plots in the given order:
\* the world after the third plot, the moments and the report.
Outcome(o, w) ==
    LET w3 == CallByName(o[3], CallByName(o[2], CallByName(o[1], w)))
        ms == {statistical_analysis(w3.df, col, p) : p \in ConstantPolicies}
    IN  [world |-> w3, moments |-> ms, report |-> {writing(m, col) : m \in ms}]

\* C10: once preprocessing has returned no statement changes the table, and
\* each of the six orders of the three plot generators leaves the same
\* files, table, moments and report as the order main uses.
C10_OrderIrrelevant ==
    /\ [][(pc \in AfterPreprocessing) => df' = df]_vars
    /\ [](pc = "plot_relational_plot" =>
            \A o \in Orders :
                Outcome(o, World(df, figs, files)) = Outcome(DriverOrder, World(df, figs, files)))
    /\ [](pc = "done" =>
            LET out == Outcome(DriverOrder, World(df, <<>>, NoFiles))
            IN  /\ World(df, figs, files) = out.world
                /\ moments \in out.moments)

\* C10 witness: the plots are about to be generated from a table of two rows
\* with different Cholesterol, the larger first.
C10_Witness ==
    /\ pc = "plot_relational_plot"
    /\ Len(df) = 2
    /\ df[1].Cholesterol.v > df[2].Cholesterol.v

=============================================================================
